---- MODULE Spec2Model ----
(***************************************************************************)
(* The video generation screen (VideoGenerationScreen) and the request     *)
(* lifecycle behind it (generateTextToVideo / generateImageToVideo), as a  *)
(* state machine: the screen's React state, the two mutation observers,   *)
(* the requests in flight, the cache directory and the alerts raised.      *)
(***************************************************************************)
EXTENDS Integers, Sequences, FiniteSets, TLC

\* ---------------------------------------------------------------- bounds
MaxSubmits == 2      \* presses of the generate trigger in one run
MaxClock == 1        \* Date.now() ranges over 0..MaxClock
MaxHistory == 2      \* pages in the WebView's back/forward list
MaxRefresh == 2      \* presses of the refresh and Retry buttons in one run

\* ---------------------------------------------------------------- values
NULL == "null"

Modes == {"text-to-video", "image-to-video"}

Durations == {5, 8}

Resolutions == {"1280x720", "1920x1080"}

\* what the user may type: nothing, whitespace only, padded text
Prompts == {<<>>, <<" ", " ">>, <<" ", "a", " ">>}

Images == {"file:///picked.jpg"}

Keys == {"", "key"}

Bodies == {<<1>>, <<2>>}

Statuses == {200, 500}

MutationRetryOnce == 0 + 1

\* useMutation is given no retry option: a failed mutationFn is not run again
MutationRetry == 0

NoAlert == [title |-> "", message |-> ""]
Progresses == {0, 50, 100}   \* nativeEvent.progress, in percent

\* ---------------------------------------------------------------- state
VARIABLES
  LTX_API_KEY,            \* process-wide credential, read once
  mode, prompt, selectedImage, duration, resolution, generatedVideoUri,
  textToVideoMutation,    \* observer: [status, id]
  imageToVideoMutation,   \* observer: [status, id]
  reqs,                   \* mutationFn invocations in flight, by submission id
  done,                   \* what the latest settled submission did (NoSub while a newer one runs)
  presses,                \* presses of the generate trigger that ran handleGenerate
  fetchCount,             \* calls of fetch
  results,                \* the videoUri of every GenerationResult returned, in order
  dirExists,              \* Paths.cache/generated-videos exists
  files,                  \* uri -> bytes of the files in that directory
  clock,                  \* the latest value Date.now() returned
  shareAlert,             \* the alert handleShare last raised for the result shown
  canGoBack, canGoForward, loading, error, progress,   \* HomeScreen's useState
  webViewRef,             \* webViewRef.current
  webView,                \* the native WebView: [mounted, phase, index, length]
  refreshes               \* presses of the refresh and Retry buttons

ui == <<mode, prompt, selectedImage, duration, resolution>>

fs == <<dirExists, files>>

observers == <<textToVideoMutation, imageToVideoMutation>>

home == <<canGoBack, canGoForward, loading, error, progress, webViewRef, webView, refreshes>>

vars == <<LTX_API_KEY, ui, generatedVideoUri, observers, reqs, done, presses,
          fetchCount, results, fs, clock, shareAlert, home>>

\* ---------------------------------------------------------------- pure helpers
IsWhitespace(c) == c = " "

RECURSIVE TrimStart(_)
TrimStart(s) ==
  IF s # <<>> /\ IsWhitespace(Head(s)) THEN TrimStart(Tail(s)) ELSE s

RECURSIVE TrimEnd(_)
TrimEnd(s) ==
  IF s # <<>> /\ IsWhitespace(s[Len(s)]) THEN TrimEnd(SubSeq(s, 1, Len(s) - 1)) ELSE s

\* String.prototype.trim
Trim(s) == TrimEnd(TrimStart(s))

MissingPrompt ==
  [title |-> "Missing Prompt", message |-> "Please enter a description for your video"]

ApiKeyRequired ==
  [title |-> "API Key Required", message |-> "Please configure your LTX API key"]

MissingImage ==
  [title |-> "Missing Image", message |-> "Please select an image first"]

GenerationFailed(msg) == [title |-> "Generation Failed", message |-> msg]

ValidateNoTrim(key, m, p, img) ==
  IF p = <<>> THEN MissingPrompt
  ELSE IF key = "" THEN ApiKeyRequired
  ELSE IF m = "image-to-video" /\ img = NULL THEN MissingImage
  ELSE NoAlert

ValidateImageFirst(key, m, p, img) ==
  IF Trim(p) = <<>> THEN MissingPrompt
  ELSE IF m = "image-to-video" /\ img = NULL THEN MissingImage
  ELSE IF key = "" THEN ApiKeyRequired
  ELSE NoAlert

ValidateNoImageCheck(key, m, p, img) ==
  IF Trim(p) = <<>> THEN MissingPrompt
  ELSE IF key = "" THEN ApiKeyRequired
  ELSE NoAlert

\* handleGenerate's early returns: the alert it raises, NoAlert when it goes on
Validate(key, m, p, img) ==
  IF Trim(p) = <<>> THEN MissingPrompt
  ELSE IF key = "" THEN ApiKeyRequired
  ELSE IF m = "image-to-video" /\ img = NULL THEN MissingImage
  ELSE NoAlert

CallWithSelectedImage(m, img, p, d, r) ==
  [url |-> IF m = "text-to-video" THEN "https://api.ltx.video/v1/text-to-video"
           ELSE "https://api.ltx.video/v1/image-to-video",
   image_uri |-> img, prompt |-> p, model |-> "ltx-2-pro", duration |-> d, resolution |-> r]

\* the fetch call a mutationFn issues
Call(m, img, p, d, r) ==
  IF m = "text-to-video"
  THEN [url |-> "https://api.ltx.video/v1/text-to-video", image_uri |-> NULL,
        prompt |-> p, model |-> "ltx-2-pro", duration |-> d, resolution |-> r]
  ELSE [url |-> "https://api.ltx.video/v1/image-to-video", image_uri |-> img,
        prompt |-> p, model |-> "ltx-2-pro", duration |-> d, resolution |-> r]

ResponseOkAlways(status) == TRUE

\* response.ok
ResponseOk(status) == status >= 200 /\ status <= 299

EnsureDirUncaught(exists) == [exists |-> TRUE, threw |-> exists]

\* try { videoDir.create({ intermediates: true }) } catch { }: create throws
\* when the directory exists, and the throw is swallowed
EnsureDir(exists) == [exists |-> TRUE, threw |-> FALSE]

\* new File(videoDir, `video_${Date.now()}.mp4`).uri
FileUri(now) == "file:///cache/generated-videos/video_" \o ToString(now) \o ".mp4"

WriteFileTruncated(fsFiles, uri, bytes) ==
  [u \in DOMAIN fsFiles \cup {uri} |-> IF u = uri THEN <<>> ELSE fsFiles[u]]

\* videoFile.write(uint8Array): whole-file write, creating or replacing
WriteFile(fsFiles, uri, bytes) ==
  [u \in DOMAIN fsFiles \cup {uri} |-> IF u = uri THEN bytes ELSE fsFiles[u]]

isGeneratingTextOnly == textToVideoMutation.status = "pending"

isGenerating ==
  textToVideoMutation.status = "pending" \/ imageToVideoMutation.status = "pending"

\* one submission: the mode, prompt and image it was pressed with, its
\* outcome, the alert it raised and how often, its fetch calls, directory
\* creations and file writes (whole or truncated), the status and the body
\* it was answered with, and the videoUri it returned
NewSub(id, m, p, img, st, alert) ==
  [id |-> id, mode |-> m, prompt |-> p, image |-> img, status |-> st, alert |-> alert,
   nAlerts |-> IF alert = NoAlert THEN 0 ELSE 1,
   fetches |-> 0, mkdirs |-> 0, writes |-> 0,
   httpStatus |-> 0, body |-> <<>>, videoUri |-> NULL]

NoSub == NewSub(0, NULL, <<>>, NULL, "none", NoAlert)

NewReq(id, m, p, img, call) ==
  [pc |-> "fetch", call |-> call, blob |-> <<>>, uri |-> NULL, failures |-> 0,
   sub |-> [NewSub(id, m, p, img, "pending", NoAlert) EXCEPT !.fetches = 1]]

Without(f, id) == [i \in DOMAIN f \ {id} |-> f[i]]

SettledOnSuccessOnly(obs, m0, m, id, st) ==
  IF m0 = m /\ obs.id = id /\ st = "success" THEN [obs EXCEPT !.status = st] ELSE obs

\* the observer of mode m0 after mutation id of mode m settles with st:
\* an observer follows only its current mutation
Settled(obs, m0, m, id, st) ==
  IF m0 = m /\ obs.id = id THEN [obs EXCEPT !.status = st] ELSE obs

\* mutate(): the observer of the mutation's mode follows the new mutation
Started(obs, m0, m, id) ==
  IF m0 = m THEN [status |-> "pending", id |-> id] ELSE obs

\* ---------------------------------------------------------------- initial state
Init ==
  /\ LTX_API_KEY \in Keys
  /\ mode = "text-to-video"
  /\ prompt = <<>>
  /\ selectedImage = NULL
  /\ duration = 5
  /\ resolution = "1280x720"
  /\ generatedVideoUri = NULL
  /\ textToVideoMutation = [status |-> "idle", id |-> 0]
  /\ imageToVideoMutation = [status |-> "idle", id |-> 0]
  /\ reqs = <<>>
  /\ done = NoSub
  /\ presses = 0
  /\ fetchCount = 0
  /\ results = <<>>
  /\ dirExists \in BOOLEAN
  /\ files = <<>>
  /\ clock = 0
  /\ shareAlert = NoAlert
  /\ canGoBack = FALSE
  /\ canGoForward = FALSE
  /\ loading = TRUE
  /\ error = FALSE
  /\ progress = 0
  /\ webViewRef = "WebView"
  /\ webView = [mounted |-> TRUE, phase |-> "start", index |-> 1, length |-> 1]
  /\ refreshes = 0

\* ---------------------------------------------------------------- user input
life == <<generatedVideoUri, observers, reqs, done, presses, fetchCount, results, fs, clock,
          shareAlert>>

SetModeClearingResult ==
  /\ \E m \in Modes : mode' = m
  /\ generatedVideoUri' = NULL
  /\ UNCHANGED <<home, LTX_API_KEY, prompt, selectedImage, duration, resolution, observers, reqs,
                 done, presses, fetchCount, results, fs, clock, shareAlert>>

SetMode ==
  /\ \E m \in Modes : mode' = m
  /\ UNCHANGED <<home, LTX_API_KEY, prompt, selectedImage, duration, resolution, life>>

SetPrompt ==
  /\ \E p \in Prompts : prompt' = p
  /\ UNCHANGED <<home, LTX_API_KEY, mode, selectedImage, duration, resolution, life>>

\* the picker is shown only in image-to-video mode with no image selected
pickImage ==
  /\ mode = "image-to-video"
  /\ selectedImage = NULL
  /\ \E img \in Images : selectedImage' = img
  /\ UNCHANGED <<home, LTX_API_KEY, mode, prompt, duration, resolution, life>>

RemoveImageCancelling ==
  /\ mode = "image-to-video"
  /\ selectedImage # NULL
  /\ selectedImage' = NULL
  /\ reqs' = <<>>
  /\ textToVideoMutation' = [textToVideoMutation EXCEPT !.status = "idle"]
  /\ imageToVideoMutation' = [imageToVideoMutation EXCEPT !.status = "idle"]
  /\ UNCHANGED <<home, LTX_API_KEY, mode, prompt, duration, resolution, generatedVideoUri,
                 done, presses, fetchCount, results, fs, clock, shareAlert>>

RemoveImage ==
  /\ mode = "image-to-video"
  /\ selectedImage # NULL
  /\ selectedImage' = NULL
  /\ UNCHANGED <<home, LTX_API_KEY, mode, prompt, duration, resolution, life>>

SetDuration ==
  /\ \E d \in Durations : duration' = d
  /\ UNCHANGED <<home, LTX_API_KEY, mode, prompt, selectedImage, resolution, life>>

SetResolution ==
  /\ \E r \in Resolutions : resolution' = r
  /\ UNCHANGED <<home, LTX_API_KEY, mode, prompt, selectedImage, duration, life>>

\* the clear button is rendered only with a result
clearVideo ==
  /\ generatedVideoUri # NULL
  /\ generatedVideoUri' = NULL
  /\ shareAlert' = NoAlert
  /\ UNCHANGED <<home, LTX_API_KEY, ui, observers, reqs, done, presses, fetchCount, results, fs, clock>>

\* ---------------------------------------------------------------- submission
ThrowUnhandled(id, msg, sub) ==
  /\ reqs' = Without(reqs, id)
  /\ done' = [sub EXCEPT !.status = "error"]
  /\ UNCHANGED <<fetchCount, observers>>

\* mutation id fails with message msg, having done `sub` so far: the
\* mutationFn is run again while the retry budget lasts, else onError raises
\* one alert and the observer leaves pending
Throw(id, msg, sub) ==
  IF reqs[id].failures < MutationRetry
  THEN /\ reqs' = [reqs EXCEPT ![id] = [@ EXCEPT !.pc = "fetch", !.failures = @ + 1,
                                        !.blob = <<>>, !.uri = NULL,
                                        !.sub = [sub EXCEPT !.fetches = @ + 1]]]
       /\ fetchCount' = fetchCount + 1
       /\ UNCHANGED <<done, observers>>
  ELSE /\ reqs' = Without(reqs, id)
       /\ done' = [sub EXCEPT !.status = "error", !.alert = GenerationFailed(msg),
                              !.nAlerts = @ + 1]
       /\ fetchCount' = fetchCount
       /\ textToVideoMutation' = Settled(textToVideoMutation, "text-to-video", sub.mode, id, "error")
       /\ imageToVideoMutation' = Settled(imageToVideoMutation, "image-to-video", sub.mode, id, "error")

RejectClearingResult(id, alert) ==
  /\ done' = NewSub(id, mode, prompt, selectedImage, "rejected", alert)
  /\ generatedVideoUri' = NULL
  /\ shareAlert' = NoAlert
  /\ UNCHANGED <<observers, reqs, fetchCount>>

\* an early return of handleGenerate: the alert is raised and nothing else
\* happens
Reject(id, alert) ==
  /\ done' = NewSub(id, mode, prompt, selectedImage, "rejected", alert)
  /\ UNCHANGED <<generatedVideoUri, shareAlert, observers, reqs, fetchCount>>

SubmitKeepingResult(id) ==
  /\ UNCHANGED <<generatedVideoUri, shareAlert>>
  /\ reqs' = (id :> NewReq(id, mode, prompt, selectedImage,
                Call(mode, selectedImage, prompt, duration, resolution))) @@ reqs
  /\ done' = NoSub
  /\ fetchCount' = fetchCount + 1
  /\ textToVideoMutation' = Started(textToVideoMutation, "text-to-video", mode, id)
  /\ imageToVideoMutation' = Started(imageToVideoMutation, "image-to-video", mode, id)

\* the rest of handleGenerate: the result is cleared and the mutation of the
\* current mode started, whose mutationFn throws for want of a credential or
\* runs up to its fetch call
Submit(id) ==
  /\ generatedVideoUri' = NULL
  /\ shareAlert' = NoAlert
  /\ IF LTX_API_KEY = ""
     THEN /\ done' = NewSub(id, mode, prompt, selectedImage, "error",
                            GenerationFailed("LTX API key is not configured"))
          /\ textToVideoMutation' =
               IF mode = "text-to-video" THEN [status |-> "error", id |-> id]
               ELSE textToVideoMutation
          /\ imageToVideoMutation' =
               IF mode = "image-to-video" THEN [status |-> "error", id |-> id]
               ELSE imageToVideoMutation
          /\ UNCHANGED <<reqs, fetchCount>>
     ELSE /\ reqs' = (id :> NewReq(id, mode, prompt, selectedImage,
                        Call(mode, selectedImage, prompt, duration, resolution))) @@ reqs
          /\ done' = NoSub
          /\ fetchCount' = fetchCount + 1
          /\ textToVideoMutation' = Started(textToVideoMutation, "text-to-video", mode, id)
          /\ imageToVideoMutation' = Started(imageToVideoMutation, "image-to-video", mode, id)

\* the generate trigger is disabled while isGenerating
handleGenerate ==
  /\ ~isGenerating
  /\ presses < MaxSubmits
  /\ presses' = presses + 1
  /\ LET id == presses + 1
         rejected == Validate(LTX_API_KEY, mode, prompt, selectedImage)
     IN IF rejected # NoAlert THEN Reject(id, rejected) ELSE Submit(id)
  /\ UNCHANGED <<home, LTX_API_KEY, ui, results, fs, clock>>

\* the share button is rendered only with a result: the share sheet is shown,
\* or sharing is unavailable, or it fails
handleShare ==
  /\ generatedVideoUri # NULL
  /\ \E outcome \in {"shared", "unavailable", "failed"} :
       shareAlert' =
         IF outcome = "unavailable"
         THEN [title |-> "Sharing not available",
               message |-> "Sharing is not available on this device"]
         ELSE IF outcome = "failed"
         THEN [title |-> "Error", message |-> "Failed to share video"]
         ELSE shareAlert
  /\ UNCHANGED <<home, LTX_API_KEY, ui, generatedVideoUri, observers, reqs, done, presses,
                 fetchCount, results, fs, clock>>

\* ---------------------------------------------------------------- a request's steps
\* fetch rejects: no status is obtained
FetchReject ==
  \E id \in DOMAIN reqs :
    /\ reqs[id].pc = "fetch"
    /\ Throw(id, "Network request failed", reqs[id].sub)
    /\ UNCHANGED <<home, shareAlert, LTX_API_KEY, ui, generatedVideoUri, presses, results, fs, clock>>

\* fetch resolves with a non-success status: the error text is read and the
\* error thrown
FetchResolveError ==
  \E id \in DOMAIN reqs, status \in Statuses :
    /\ reqs[id].pc = "fetch"
    /\ ~ResponseOk(status)
    /\ Throw(id, "Generation failed: " \o ToString(status),
             [reqs[id].sub EXCEPT !.httpStatus = status])
    /\ UNCHANGED <<home, shareAlert, LTX_API_KEY, ui, generatedVideoUri, presses, results, fs, clock>>

\* fetch resolves with success and a binary body: the directory is ensured,
\* the file is named after Date.now() (no earlier than the last reading,
\* possibly the same millisecond), and arrayBuffer() is awaited
FetchResolveOk ==
  \E id \in DOMAIN reqs, status \in Statuses, body \in Bodies, now \in clock..MaxClock :
    /\ reqs[id].pc = "fetch"
    /\ ResponseOk(status)
    /\ LET ensured == EnsureDir(dirExists)
       IN IF ensured.threw
          THEN /\ Throw(id, "Directory already exists",
                        [reqs[id].sub EXCEPT !.httpStatus = status, !.body = body])
               /\ UNCHANGED <<dirExists, clock>>
          ELSE /\ dirExists' = ensured.exists
               /\ clock' = now
               /\ reqs' = [reqs EXCEPT ![id] = [@ EXCEPT !.pc = "arrayBuffer", !.blob = body,
                             !.uri = FileUri(now),
                             !.sub = [@ EXCEPT !.httpStatus = status, !.body = body,
                                        !.mkdirs = @ + (IF dirExists THEN 0 ELSE 1)]]]
               /\ UNCHANGED <<observers, done, fetchCount>>
    /\ UNCHANGED <<home, shareAlert, LTX_API_KEY, ui, generatedVideoUri, presses, results, files>>

\* arrayBuffer() resolves, the file is written and the result returned;
\* onSuccess sets generatedVideoUri
WriteAndReturn ==
  \E id \in DOMAIN reqs :
    /\ reqs[id].pc = "arrayBuffer"
    /\ files' = WriteFile(files, reqs[id].uri, reqs[id].blob)
    /\ reqs' = Without(reqs, id)
    /\ done' = [reqs[id].sub EXCEPT !.status = "success", !.writes = @ + 1,
                                    !.videoUri = reqs[id].uri]
    /\ results' = Append(results, reqs[id].uri)
    /\ generatedVideoUri' = reqs[id].uri
    /\ textToVideoMutation' =
         Settled(textToVideoMutation, "text-to-video", reqs[id].sub.mode, id, "success")
    /\ imageToVideoMutation' =
         Settled(imageToVideoMutation, "image-to-video", reqs[id].sub.mode, id, "success")
    /\ UNCHANGED <<home, shareAlert, LTX_API_KEY, ui, presses, fetchCount, dirExists, clock>>

WriteThrowsSwallowed ==
  \E id \in DOMAIN reqs, truncated \in BOOLEAN :
    /\ reqs[id].pc = "arrayBuffer"
    /\ files' = IF truncated
                THEN WriteFileTruncated(files, reqs[id].uri, reqs[id].blob)
                ELSE files
    /\ reqs' = Without(reqs, id)
    /\ done' = [reqs[id].sub EXCEPT !.status = "success", !.videoUri = reqs[id].uri,
                                    !.writes = @ + (IF truncated THEN 1 ELSE 0)]
    /\ results' = Append(results, reqs[id].uri)
    /\ generatedVideoUri' = reqs[id].uri
    /\ textToVideoMutation' =
         Settled(textToVideoMutation, "text-to-video", reqs[id].sub.mode, id, "success")
    /\ imageToVideoMutation' =
         Settled(imageToVideoMutation, "image-to-video", reqs[id].sub.mode, id, "success")
    /\ UNCHANGED <<home, shareAlert, LTX_API_KEY, ui, presses, fetchCount, dirExists, clock>>

\* videoFile.write throws, leaving nothing or a truncated file
WriteThrows ==
  \E id \in DOMAIN reqs, truncated \in BOOLEAN :
    /\ reqs[id].pc = "arrayBuffer"
    /\ files' = IF truncated
                THEN WriteFileTruncated(files, reqs[id].uri, reqs[id].blob)
                ELSE files
    /\ Throw(id, "File write failed",
             [reqs[id].sub EXCEPT !.writes = @ + (IF truncated THEN 1 ELSE 0)])
    /\ UNCHANGED <<home, shareAlert, LTX_API_KEY, ui, generatedVideoUri, presses, results, dirExists, clock>>

Next ==
  \/ SetMode
  \/ SetPrompt
  \/ pickImage
  \/ RemoveImage
  \/ SetDuration
  \/ SetResolution
  \/ clearVideo
  \/ handleGenerate
  \/ handleShare
  \/ FetchReject
  \/ FetchResolveError
  \/ FetchResolveOk
  \/ WriteAndReturn
  \/ WriteThrows

Spec == Init /\ [][Next]_vars

\* the remote service answers or the transport fails, and a file-system call
\* returns or throws: a request in flight is eventually taken a step further
SpecFair ==
  /\ Spec
  /\ WF_vars(FetchReject \/ FetchResolveError \/ FetchResolveOk)
  /\ WF_vars(WriteAndReturn \/ WriteThrows)

\* ---------------------------------------------------------------- home screen
generation == <<LTX_API_KEY, ui, generatedVideoUri, observers, reqs, done, presses,
                fetchCount, results, fs, clock, shareAlert>>

\* the WebView once the error panel is rendered in its place
Unmounted == [mounted |-> FALSE, phase |-> "none", index |-> 0, length |-> 0]

\* setError(true); setLoading(false), and the render that follows: the error
\* panel replaces the WebView, whose ref React sets back to null
ShowErrorPanel ==
  /\ error' = TRUE
  /\ loading' = FALSE
  /\ webView' = Unmounted
  /\ webViewRef' = NULL
  /\ UNCHANGED <<canGoBack, canGoForward, progress, refreshes, generation>>

onLoadStart ==
  /\ webView.mounted
  /\ webView.phase = "start"
  /\ webView' = [webView EXCEPT !.phase = "loading"]
  /\ loading' = TRUE
  /\ error' = FALSE
  /\ UNCHANGED <<canGoBack, canGoForward, progress, webViewRef, refreshes, generation>>

onLoadEnd ==
  /\ webView.mounted
  /\ webView.phase = "loading"
  /\ webView' = [webView EXCEPT !.phase = "loaded"]
  /\ loading' = FALSE
  /\ UNCHANGED <<canGoBack, canGoForward, error, progress, webViewRef, refreshes, generation>>

onLoadProgress ==
  /\ webView.mounted
  /\ webView.phase = "loading"
  /\ \E p \in Progresses : progress' = p
  /\ UNCHANGED <<canGoBack, canGoForward, loading, error, webViewRef, webView, refreshes,
                 generation>>

onError ==
  /\ webView.mounted
  /\ webView.phase = "loading"
  /\ ShowErrorPanel

onHttpError ==
  /\ webView.mounted
  /\ webView.phase = "loading"
  /\ ShowErrorPanel

onNavigationStateChange ==
  /\ webView.mounted
  /\ canGoBack' = (webView.index > 1)
  /\ canGoForward' = (webView.index < webView.length)
  /\ UNCHANGED <<loading, error, progress, webViewRef, webView, refreshes, generation>>

\* the user follows a link of the loaded page
FollowLink ==
  /\ webView.mounted
  /\ webView.phase = "loaded"
  /\ webView.index < MaxHistory
  /\ webView' = [webView EXCEPT !.phase = "start", !.index = @ + 1,
                                !.length = webView.index + 1]
  /\ UNCHANGED <<canGoBack, canGoForward, loading, error, progress, webViewRef, refreshes,
                 generation>>

\* the back button is disabled unless canGoBack
handleGoBack ==
  /\ canGoBack
  /\ IF webViewRef # NULL /\ webView.index > 1
     THEN webView' = [webView EXCEPT !.phase = "start", !.index = @ - 1]
     ELSE UNCHANGED webView
  /\ UNCHANGED <<canGoBack, canGoForward, loading, error, progress, webViewRef, refreshes,
                 generation>>

handleGoForward ==
  /\ canGoForward
  /\ IF webViewRef # NULL /\ webView.index < webView.length
     THEN webView' = [webView EXCEPT !.phase = "start", !.index = @ + 1]
     ELSE UNCHANGED webView
  /\ UNCHANGED <<canGoBack, canGoForward, loading, error, progress, webViewRef, refreshes,
                 generation>>

\* onPress of the header's refresh button and of the error panel's Retry
handleRefresh ==
  /\ refreshes < MaxRefresh
  /\ refreshes' = refreshes + 1
  /\ IF webViewRef # NULL
     THEN /\ error' = FALSE
          /\ webView' = [webView EXCEPT !.phase = "start"]
     ELSE UNCHANGED <<error, webView>>
  /\ UNCHANGED <<canGoBack, canGoForward, loading, progress, webViewRef, generation>>

NextHome ==
  \/ onLoadStart
  \/ onLoadEnd
  \/ onLoadProgress
  \/ onError
  \/ onHttpError
  \/ onNavigationStateChange
  \/ FollowLink
  \/ handleGoBack
  \/ handleGoForward
  \/ handleRefresh

SpecHome == Init /\ [][NextHome]_vars

\* ---------------------------------------------------------------- vocabulary of the claims
\* a prompt that is empty or holds whitespace only
Blank(p) == \A i \in 1..Len(p) : p[i] = " "

NonSuccess(status) == status # 0 /\ (status < 200 \/ status > 299)

RemoteMessages == {"Generation failed: " \o ToString(st) : st \in Statuses}

\* the error kind an alert reports
Kind(alert) ==
  IF alert.title \in {"Missing Prompt", "Missing Image"} THEN "ValidationError"
  ELSE IF alert.title = "API Key Required" THEN "ConfigurationError"
  ELSE IF alert.title # "Generation Failed" THEN "none"
  ELSE IF alert.message = "LTX API key is not configured" THEN "ConfigurationError"
  ELSE IF alert.message \in RemoteMessages THEN "RemoteError"
  ELSE IF alert.message = "Network request failed" THEN "TransportError"
  ELSE "PersistenceError"

Failed(sub) == sub.status \in {"rejected", "error"}

\* every submission the state still describes: the latest settled one and
\* those in flight
Subs == (IF done.status = "none" THEN {} ELSE {done}) \cup {reqs[id].sub : id \in DOMAIN reqs}

\* ---------------------------------------------------------------- C1
\* C1 (as stated): with no credential configured, every submission fails with
\* the configuration error, whatever the other inputs are, a blank prompt
\* included.
C1_AsStated ==
  LTX_API_KEY = "" =>
    \A sub \in Subs : Failed(sub) /\ Kind(sub.alert) = "ConfigurationError"

\* C1 (amended): with no credential configured, every submission whose prompt
\* is not blank fails with the configuration error, without a fetch, in both
\* modes and with or without an image; a blank prompt is reported as the
\* missing-prompt validation error instead.
C1_NoKeyIsConfigurationError ==
  LTX_API_KEY = "" =>
    \A sub \in Subs :
      /\ Failed(sub)
      /\ sub.fetches = 0
      /\ Kind(sub.alert) =
           IF Blank(sub.prompt) THEN "ValidationError" ELSE "ConfigurationError"

C1_Witness ==
  /\ LTX_API_KEY = ""
  /\ done.status = "rejected"
  /\ done.mode = "image-to-video"
  /\ done.image = NULL
  /\ ~Blank(done.prompt)
  /\ done.alert = ApiKeyRequired

\* ---------------------------------------------------------------- C2
\* C2 (as stated): every submission in image-to-video mode with no image
\* selected fails with a validation error and issues no network request.
C2_AsStated ==
  \A sub \in Subs :
    (sub.mode = "image-to-video" /\ sub.image = NULL) =>
      /\ sub.status = "rejected"
      /\ sub.fetches = 0
      /\ Kind(sub.alert) = "ValidationError"

\* C2 (amended): every submission in image-to-video mode with no image
\* selected is rejected before either mutation starts and issues no network
\* request; the error is a validation error, except that with no credential
\* configured and a prompt that is not blank it is the configuration error.
C2_NoImageIsRejected ==
  \A sub \in Subs :
    (sub.mode = "image-to-video" /\ sub.image = NULL) =>
      /\ sub.status = "rejected"
      /\ sub.fetches = 0
      /\ Kind(sub.alert) =
           IF LTX_API_KEY = "" /\ ~Blank(sub.prompt)
           THEN "ConfigurationError" ELSE "ValidationError"

C2_Witness ==
  /\ LTX_API_KEY # ""
  /\ done.status = "rejected"
  /\ done.mode = "image-to-video"
  /\ done.image = NULL
  /\ ~Blank(done.prompt)
  /\ done.alert = MissingImage
  /\ fetchCount = 0

\* ---------------------------------------------------------------- C3
\* C3: every submission whose prompt is empty or whitespace only fails with
\* a validation error and issues no network request, in both modes.
C3_BlankPromptIsRejected ==
  \A sub \in Subs :
    Blank(sub.prompt) =>
      /\ sub.status = "rejected"
      /\ sub.fetches = 0
      /\ Kind(sub.alert) = "ValidationError"

C3_Witness ==
  /\ done.status = "rejected"
  /\ done.prompt = <<" ", " ">>
  /\ done.mode = "image-to-video"
  /\ done.alert = MissingPrompt
  /\ LTX_API_KEY # ""
  /\ done.image # NULL

\* ---------------------------------------------------------------- C4
\* C4: a submission answered with a non-success status ends in a remote
\* error, having created no directory and written no file.
C4_NonSuccessLeavesNoFile ==
  \A sub \in Subs :
    NonSuccess(sub.httpStatus) =>
      /\ sub.status = "error"
      /\ Kind(sub.alert) = "RemoteError"
      /\ sub.mkdirs = 0
      /\ sub.writes = 0
      /\ sub.videoUri = NULL

C4_Witness ==
  /\ done.status = "error"
  /\ done.httpStatus = 500
  /\ done.mode = "image-to-video"
  /\ ~dirExists
  /\ files = <<>>

\* ---------------------------------------------------------------- C5
\* C5: a submission answered with success and body B writes one file, whose
\* contents are B, and returns that file's location, which onSuccess stores
\* in generatedVideoUri; in both modes.
C5_SuccessPersistsBody ==
  /\ done.status = "success" =>
       /\ done.body \in Bodies
       /\ done.writes = 1
       /\ done.videoUri \in DOMAIN files
       /\ files[done.videoUri] = done.body
       /\ generatedVideoUri \in {done.videoUri, NULL}
  /\ Len(results) > 0 /\ generatedVideoUri # NULL =>
       generatedVideoUri = results[Len(results)]

C5_Witness ==
  /\ done.status = "success"
  /\ done.mode = "image-to-video"
  /\ done.body = <<2>>
  /\ generatedVideoUri = done.videoUri
  /\ files[generatedVideoUri] = <<2>>

\* ---------------------------------------------------------------- C6
\* C6 (as stated): two sequential successful submissions return two
\* distinct file locations.
C6_AsStated ==
  \A i, j \in 1..Len(results) : i # j => results[i] # results[j]

\* ---------------------------------------------------------------- C7
\* C7: a non-null generatedVideoUri names a file that holds the whole body
\* of a successful response, and after a submission has ended in an error
\* generatedVideoUri is null.
C7_ResultIsComplete ==
  /\ generatedVideoUri # NULL =>
       /\ generatedVideoUri \in DOMAIN files
       /\ files[generatedVideoUri] \in Bodies
  /\ done.status = "error" => generatedVideoUri = NULL

C7_Witness ==
  /\ done.status = "error"
  /\ Kind(done.alert) = "PersistenceError"
  /\ done.videoUri = NULL
  /\ \E u \in DOMAIN files : files[u] = <<>>
  /\ generatedVideoUri = NULL

\* ---------------------------------------------------------------- C8
\* C8: every failed submission has raised exactly one alert, and once it has
\* failed nothing is pending, so the generate trigger is enabled.
C8_OneAlertPerFailure ==
  Failed(done) =>
    /\ done.nAlerts = 1
    /\ done.alert # NoAlert
    /\ ~isGenerating
    /\ reqs = <<>>

C8_Witness ==
  /\ Failed(done)
  /\ Kind(done.alert) = "TransportError"
  /\ done.mode = "image-to-video"
  /\ imageToVideoMutation.status = "error"

\* ---------------------------------------------------------------- C9
\* C9: an accepted submission issues exactly one fetch, a rejected one none,
\* and fetch is never called more often than the trigger was pressed.
C9_OneRequestPerSubmission ==
  /\ \A sub \in Subs :
       sub.fetches = IF sub.status = "rejected" THEN 0 ELSE 1
  /\ fetchCount <= presses

C9_Witness ==
  /\ done.status = "error"
  /\ Kind(done.alert) = "RemoteError"
  /\ done.fetches = 1
  /\ fetchCount = 1
  /\ presses = MaxSubmits

\* ---------------------------------------------------------------- C10
\* C10: no two requests of the same mode are ever in flight together.
C10_NoOverlapPerMode ==
  \A i, j \in DOMAIN reqs : i # j => reqs[i].sub.mode # reqs[j].sub.mode

C10_Witness ==
  /\ \E id \in DOMAIN reqs : reqs[id].sub.mode = "image-to-video"
  /\ mode = "text-to-video"
  /\ presses < MaxSubmits
  /\ isGenerating

\* ---------------------------------------------------------------- C11
\* C11: a result, once shown, changes only by becoming null, and only when
\* the user clears it or starts a new request; switching mode, editing the
\* prompt, picking or removing an image, changing duration or resolution and
\* sharing leave it as it is.
C11_ResultRetained ==
  [][(generatedVideoUri # NULL /\ generatedVideoUri' # generatedVideoUri) =>
       /\ generatedVideoUri' = NULL
       /\ \/ presses' = presses + 1 /\ DOMAIN reqs' # DOMAIN reqs
          \/ UNCHANGED <<ui, observers, reqs, done, presses, fetchCount, results, fs, clock>>
    ]_vars

C11_Witness ==
  /\ generatedVideoUri # NULL
  /\ done.status = "success"
  /\ done.mode = "text-to-video"
  /\ mode = "image-to-video"
  /\ selectedImage # NULL
  /\ prompt = <<>>
  /\ duration = 8
  /\ resolution = "1920x1080"
  /\ shareAlert.title = "Error"

\* ---------------------------------------------------------------- C12
\* C12: a request in flight posts to the endpoint of the mode it was
\* submitted in, under that mode's mutation, with the prompt it was submitted
\* with; it carries a source image exactly when that mode is image-to-video,
\* and then the image selected at submission.
C12_RequestShapeFollowsMode ==
  \A id \in DOMAIN reqs :
    LET r == reqs[id]
    IN /\ r.call.prompt = r.sub.prompt
       /\ r.call.model = "ltx-2-pro"
       /\ r.call.duration \in Durations
       /\ r.call.resolution \in Resolutions
       /\ r.sub.mode = "text-to-video" =>
            /\ r.call.url = "https://api.ltx.video/v1/text-to-video"
            /\ r.call.image_uri = NULL
            /\ textToVideoMutation = [status |-> "pending", id |-> id]
       /\ r.sub.mode = "image-to-video" =>
            /\ r.call.url = "https://api.ltx.video/v1/image-to-video"
            /\ r.call.image_uri \in Images
            /\ r.call.image_uri = r.sub.image
            /\ imageToVideoMutation = [status |-> "pending", id |-> id]

C12_Witness ==
  \E id \in DOMAIN reqs :
    /\ reqs[id].pc = "fetch"
    /\ reqs[id].sub.mode = "text-to-video"
    /\ reqs[id].sub.image # NULL
    /\ reqs[id].call.image_uri = NULL
    /\ reqs[id].call.duration = 8

\* ---------------------------------------------------------------- C13
\* C13: whether or not the generated-videos directory exists when a
\* successful response arrives, the request goes on to its write with the
\* directory in place: a submission answered with success fails only if the
\* write itself fails, never because the directory was already there, and
\* creates the directory at most once.
C13_EnsureDirIdempotent ==
  /\ \A sub \in Subs :
       /\ (sub.status = "error" /\ sub.httpStatus >= 200 /\ sub.httpStatus <= 299) =>
            sub.alert = GenerationFailed("File write failed")
       /\ sub.status = "success" => dirExists
       /\ sub.mkdirs \in {0, 1}
  /\ \A id \in DOMAIN reqs : reqs[id].pc = "arrayBuffer" => dirExists

C13_Witness ==
  /\ Len(results) = 2
  /\ done.status = "success"
  /\ done.mkdirs = 0
  /\ done.videoUri \in DOMAIN files

\* ---------------------------------------------------------------- C14
\* C14: a submission whose fetch rejected, so that no status was obtained,
\* has raised one 'Generation Failed' alert, created and written nothing,
\* left generatedVideoUri null and left nothing pending.
C14_TransportFailure ==
  (done.status = "error" /\ done.fetches > 0 /\ done.httpStatus = 0) =>
    /\ done.alert = GenerationFailed("Network request failed")
    /\ done.nAlerts = 1
    /\ done.mkdirs = 0
    /\ done.writes = 0
    /\ done.videoUri = NULL
    /\ generatedVideoUri = NULL
    /\ ~isGenerating

C14_Witness ==
  /\ done.status = "error"
  /\ done.fetches = 1
  /\ done.httpStatus = 0
  /\ done.mode = "text-to-video"
  /\ textToVideoMutation.status = "error"
  /\ files = <<>>

\* ---------------------------------------------------------------- C17
\* C17: while either mutation is pending, generatedVideoUri is null.
C17_PendingHidesResult ==
  (textToVideoMutation.status = "pending" \/ imageToVideoMutation.status = "pending") =>
    generatedVideoUri = NULL

C17_Witness ==
  /\ isGenerating
  /\ Len(results) > 0
  /\ results[Len(results)] \in DOMAIN files
  /\ generatedVideoUri = NULL

\* ---------------------------------------------------------------- C18
\* C18: a press of the generate trigger that is rejected changes nothing but
\* the alert it raises: the result, the mutations, the requests, the inputs
\* and the files stay as they were.
C18_RejectedPressChangesNothing ==
  [][(presses' = presses + 1 /\ done'.status = "rejected") =>
       UNCHANGED <<generatedVideoUri, observers, reqs, ui, fetchCount, results, fs, shareAlert>>
    ]_vars

C18_Witness ==
  /\ done.status = "rejected"
  /\ done.alert = MissingImage
  /\ generatedVideoUri # NULL
  /\ ~isGenerating

\* ---------------------------------------------------------------- C15
\* C15: a request in flight leaves only by settling, as the latest
\* submission with status success or error, and no input of the user takes
\* it away or changes it; and when the remote service answers or the
\* transport fails, a pending lifecycle leads to a success or a failure with
\* nothing pending, so that the trigger is enabled again.
C15_InFlightRunsToCompletion ==
  /\ [][\A id \in DOMAIN reqs :
          \/ id \in DOMAIN reqs' /\ reqs'[id].call = reqs[id].call
          \/ done'.id = id /\ done'.status \in {"success", "error"} /\ ~isGenerating'
       ]_vars
  /\ [][ui' # ui => UNCHANGED <<reqs, observers>>]_vars
  /\ isGenerating ~> (~isGenerating /\ done.status \in {"success", "error"})

C15_Witness ==
  /\ isGenerating
  /\ \E id \in DOMAIN reqs :
       /\ reqs[id].pc = "fetch"
       /\ reqs[id].call.prompt # prompt
       /\ reqs[id].sub.mode # mode
       /\ reqs[id].sub.image # selectedImage

\* ---------------------------------------------------------------- C16
\* C16 (as stated): a press of Retry while the error panel is shown clears
\* error and reloads the page.
C16_AsStated ==
  [][(error /\ refreshes' = refreshes + 1) =>
       (~error' /\ webView'.mounted /\ webView'.phase = "start")
    ]_vars

====
